---- MODULE Spec2Model ----
(***************************************************************************)
(* Model of the legacy Wifi HAL service (wifi_hal_legacy):                 *)
(*   WifiHalService  - the lifecycle controller (start / stop / getChip)   *)
(*   WifiChipService - the chip proxy created by a successful start()      *)
(*   the HAL event loop thread (DoHalEventLoop) and the Looper it posts to *)
(*                                                                         *)
(* Public operations and Looper messages run on the main thread, one at a  *)
(* time: each is one action.  The event loop thread runs concurrently with *)
(* them; it is one action per access it makes to the service's fields, so  *)
(* that main-thread operations interleave between its steps.               *)
(***************************************************************************)
EXTENDS Integers, Sequences, FiniteSets, TLC

(* ---------------------------- bounds ---------------------------------- *)
\* successful wifi_initialize calls (each yields a fresh vendor handle)
MaxSessions == 2
\* distinct IWifiEventCallback objects that clients may register
NumSubscribers == 2
\* distinct IWifiChipEventCallback objects that clients may register
NumChipSubscribers == 1

Sessions        == 1..MaxSessions
Subscribers     == 1..NumSubscribers
ChipSubscribers == 1..NumChipSubscribers

(* ------------------------- vendor boundary ---------------------------- *)
\* wifi_error values the vendor HAL may return
WIFI_SUCCESS == "WIFI_SUCCESS"
WifiErrors   == {"WIFI_SUCCESS", "WIFI_ERROR_UNKNOWN"}

\* value of the "wifi.interface" property; "wlan0" when unset
InterfaceNames == {"wlan0", "wlan1"}

\* sentinel returned by FindInterfaceHandle when nothing matches
kInterfaceNotFoundHandle == 0

\* interface handles are issued per vendor handle: handle h owns 10h+1, 10h+2
IfaceHandle(h, i) == 10 * h + i

\* what wifi_get_ifaces / wifi_get_iface_name may report for vendor handle h:
\* a list of interfaces, each with the status and the name of its name query
IfaceLists(h) ==
  { <<>>,
    << [handle |-> IfaceHandle(h, 1), ret |-> "WIFI_SUCCESS", name |-> "wlan0"] >>,
    << [handle |-> IfaceHandle(h, 1), ret |-> "WIFI_SUCCESS", name |-> "p2p0"],
       [handle |-> IfaceHandle(h, 2), ret |-> "WIFI_SUCCESS", name |-> "wlan0"] >>,
    << [handle |-> IfaceHandle(h, 1), ret |-> "WIFI_ERROR_UNKNOWN", name |-> "wlan0"],
       [handle |-> IfaceHandle(h, 2), ret |-> "WIFI_SUCCESS", name |-> "wlan0"] >>,
    << [handle |-> IfaceHandle(h, 1), ret |-> "WIFI_ERROR_UNKNOWN", name |-> "wlan0"] >> }

(* ------------------------------ state --------------------------------- *)
VARIABLES
  state_,                               \* WifiHalService::state_
  callbacks_,                           \* WifiHalService::callbacks_ (std::set)
  hal_handle_,                          \* WifiHalService::hal_handle_ (0: never set)
  event_loop_thread_,                   \* session of the joinable thread held, 0: not joinable
  awaiting_hal_cleanup_command_,
  awaiting_hal_event_loop_termination_,
  chip_,                                \* WifiHalService::chip_ (0: null, else chip id)
  chips,                                \* the WifiChipService objects, by id
  client_chips,                         \* chips a client holds a reference to (from getChip)
  looper_,                              \* messages sent to the Looper, not yet handled
  worker,                               \* position of each session's event loop thread
  hal,                                  \* vendor side: state of each vendor handle
  aborted,                              \* the process has aborted (LOG(FATAL), std::terminate)
  last,                                 \* the step taken last: operation, result, calls made
  stop_broadcasts,                      \* history: onStop broadcasts FinishHalCleanup made, per session
  exit_state                            \* history: state_ when each session's wifi_event_loop returned

vars == << state_, callbacks_, hal_handle_, event_loop_thread_,
           awaiting_hal_cleanup_command_, awaiting_hal_event_loop_termination_,
           chip_, chips, client_chips, looper_, worker, hal, aborted, last,
           stop_broadcasts, exit_state >>

\* the fields of WifiHalService
service_vars == << state_, callbacks_, hal_handle_, event_loop_thread_,
                   awaiting_hal_cleanup_command_, awaiting_hal_event_loop_termination_,
                   chip_ >>

States == {"STOPPED", "STARTED", "STOPPING"}

\* positions of DoHalEventLoop
WorkerPcs == {"none", "loop", "returned", "checked", "detached", "exited", "aborted"}

\* a WifiChipService that was never constructed
NoChip == [hal_service_ |-> FALSE, interface_handle_ |-> 0, callbacks_ |-> {}]

(* --------------------------- call records ----------------------------- *)
\* one call made by an operation: a callback delivered to subscriber `to`, or a
\* vendor function called on handle `to`
Call(ev, to, arg) == [ev |-> ev, to |-> to, arg |-> arg]

Step(op, pre, ret, chip, events) ==
  [op |-> op, pre |-> pre, ret |-> ret, chip |-> chip, events |-> events]

RECURSIVE Broadcast(_, _, _)

\* the loop as it would be if it returned after the first delivery
Broadcast_first_only(set, ev, arg) ==
  IF set = {} THEN <<>>
  ELSE LET c == CHOOSE x \in set : \A y \in set : x <= y
       IN  << [ev |-> ev, to |-> c, arg |-> arg] >>

\* `for (auto& callback : callbacks_) callback->ev(arg)`: std::set iterates in
\* ascending key order, one delivery per element
Broadcast(set, ev, arg) ==
  IF set = {} THEN <<>>
  ELSE LET c == CHOOSE x \in set : \A y \in set : x <= y
       IN  << Call(ev, c, arg) >> \o Broadcast(set \ {c}, ev, arg)

\* CreateFailureReason(CommandFailureReason::NOT_AVAILABLE, "HAL is stopping")
CreateFailureReason(reason, description) == << reason, description >>

\* CreateFailureReasonLegacyError(status, "Failed to initialize HAL")
CreateFailureReasonLegacyError(status, description) == << "LEGACY", status, description >>

\* the calls of `events` named ev
RECURSIVE CallsOf(_, _)
CallsOf(events, ev) ==
  IF events = <<>> THEN <<>>
  ELSE (IF Head(events).ev = ev THEN << Head(events) >> ELSE <<>>)
       \o CallsOf(Tail(events), ev)

\* the vendor functions
VendorCalls == {"wifi_initialize", "wifi_cleanup", "wifi_get_ifaces", "wifi_get_iface_name",
                "wifi_get_driver_version", "wifi_get_firmware_version"}

NoVendorCall(events) == \A i \in 1..Len(events) : events[i].ev \notin VendorCalls

(* ---------------------------- Init ------------------------------------ *)
\* WifiHalService::WifiHalService sets looper_ and state_ only: the two awaiting_
\* flags are left uninitialized, so they hold either value
Init ==
  /\ state_ = "STOPPED"
  /\ callbacks_ = {}
  /\ hal_handle_ = 0
  /\ event_loop_thread_ = 0
  /\ awaiting_hal_cleanup_command_ \in BOOLEAN
  /\ awaiting_hal_event_loop_termination_ \in BOOLEAN
  /\ chip_ = 0
  /\ chips = [c \in Sessions |-> NoChip]
  /\ client_chips = {}
  /\ looper_ = <<>>
  /\ worker = [s \in Sessions |-> "none"]
  /\ hal = [h \in Sessions |-> "unused"]
  /\ aborted = FALSE
  /\ last = Step("construct", "STOPPED", FALSE, 0, <<>>)
  /\ stop_broadcasts = [s \in Sessions |-> 0]
  /\ exit_state = [s \in Sessions |-> "none"]

\* the vendor handle the next successful wifi_initialize returns
NextHandle == Cardinality({h \in Sessions : hal[h] # "unused"}) + 1

(* ------------------------ WifiHalService ------------------------------ *)
\* callbacks_.insert(callback): std::set keeps one element per key; the call
\* is recorded with whether the key was already present
registerEventCallback(callback) ==
  /\ ~aborted
  /\ callbacks_' = callbacks_ \cup {callback}
  /\ last' = Step("registerEventCallback", state_, FALSE, 0,
                  << Call("callbacks_.insert", callback,
                          << IF callback \in callbacks_ THEN "present" ELSE "inserted" >>) >>)
  /\ UNCHANGED << state_, hal_handle_, event_loop_thread_, awaiting_hal_cleanup_command_,
                  awaiting_hal_event_loop_termination_, chip_, chips, client_chips,
                  looper_, worker, hal, aborted, stop_broadcasts, exit_state >>

\* isStarted() as it would be if it compared with STARTED
isStarted_only_started ==
  /\ ~aborted
  /\ last' = Step("isStarted", state_, state_ = "STARTED", 0, <<>>)
  /\ UNCHANGED << service_vars, chips, client_chips, looper_, worker, hal, aborted,
                  stop_broadcasts, exit_state >>

isStarted ==
  /\ ~aborted
  /\ last' = Step("isStarted", state_, state_ # "STOPPED", 0, <<>>)
  /\ UNCHANGED << service_vars, chips, client_chips, looper_, worker, hal, aborted,
                  stop_broadcasts, exit_state >>

\* the loop of FindInterfaceHandle over iface_handles[i..]: the calls made and
\* the handle returned
RECURSIVE FindInterfaceLoop(_, _)
FindInterfaceLoop(ifname, ifaces) ==
  IF ifaces = <<>> THEN [handle |-> kInterfaceNotFoundHandle, events |-> <<>>]
  ELSE LET i    == Head(ifaces)
           call == Call("wifi_get_iface_name", i.handle, <<>>)
       IN  IF i.ret = WIFI_SUCCESS /\ ifname = i.name
           THEN [handle |-> i.handle, events |-> << call >>]
           ELSE LET rest == FindInterfaceLoop(ifname, Tail(ifaces))
                IN  [handle |-> rest.handle, events |-> << call >> \o rest.events]

FindInterfaceHandle(handle, ifname, ret, ifaces) ==
  LET call == Call("wifi_get_ifaces", handle, <<>>)
  IN  IF ret = WIFI_SUCCESS
      THEN LET found == FindInterfaceLoop(ifname, ifaces)
           IN  [handle |-> found.handle, events |-> << call >> \o found.events]
      ELSE [handle |-> kInterfaceNotFoundHandle, events |-> << call >>]

\* start() in STARTED as it would be if it initialized the vendor HAL again
start_started_reinitializes ==
  /\ last' = Step("start", state_, FALSE, 0,
                  << Call("wifi_initialize", hal_handle_, << WIFI_SUCCESS >>) >>
                  \o Broadcast(callbacks_, "onStart", <<>>))
  /\ UNCHANGED << service_vars, chips, client_chips, looper_, worker, hal, aborted,
                  stop_broadcasts, exit_state >>

\* start() in STARTED
start_started ==
  /\ last' = Step("start", state_, FALSE, 0, Broadcast(callbacks_, "onStart", <<>>))
  /\ UNCHANGED << service_vars, chips, client_chips, looper_, worker, hal, aborted,
                  stop_broadcasts, exit_state >>

\* start() in STOPPING as it would be if it took the STARTED branch
start_stopping_confirms ==
  /\ last' = Step("start", state_, FALSE, 0, Broadcast(callbacks_, "onStart", <<>>))
  /\ UNCHANGED << service_vars, chips, client_chips, looper_, worker, hal, aborted,
                  stop_broadcasts, exit_state >>

\* start() in STOPPING
start_stopping ==
  /\ last' = Step("start", state_, FALSE, 0,
                  Broadcast(callbacks_, "onStartFailure",
                            CreateFailureReason("NOT_AVAILABLE", "HAL is stopping")))
  /\ UNCHANGED << service_vars, chips, client_chips, looper_, worker, hal, aborted,
                  stop_broadcasts, exit_state >>

\* a failed wifi_initialize as it would be without the early return: the state
\* is set to STARTED after the failure was reported
start_initialize_failed_no_return(status, handle) ==
  /\ hal_handle_' = handle
  /\ state_' = "STARTED"
  /\ last' = Step("start", state_, FALSE, 0,
                  << Call("wifi_initialize", 0, << status >>) >>
                  \o Broadcast(callbacks_, "onStartFailure",
                               CreateFailureReasonLegacyError(status, "Failed to initialize HAL")))
  /\ UNCHANGED << callbacks_, event_loop_thread_, awaiting_hal_cleanup_command_,
                  awaiting_hal_event_loop_termination_, chip_, chips, client_chips,
                  looper_, worker, hal, aborted, stop_broadcasts, exit_state >>

\* start() in STOPPED, wifi_initialize fails with `status`; the vendor leaves
\* hal_handle_ as it was or writes `handle` (a null handle) to it
start_initialize_failed(status, handle) ==
  /\ hal_handle_' = handle
  /\ last' = Step("start", state_, FALSE, 0,
                  << Call("wifi_initialize", 0, << status >>) >>
                  \o Broadcast(callbacks_, "onStartFailure",
                               CreateFailureReasonLegacyError(status, "Failed to initialize HAL")))
  /\ UNCHANGED << state_, callbacks_, event_loop_thread_, awaiting_hal_cleanup_command_,
                  awaiting_hal_event_loop_termination_, chip_, chips, client_chips,
                  looper_, worker, hal, aborted, stop_broadcasts, exit_state >>

\* start() in STOPPED, wifi_initialize succeeds and returns the handle `handle`
start_initialize_ok(handle, ifname, ret, ifaces) ==
  LET found == FindInterfaceHandle(handle, ifname, ret, ifaces)
      init  == << Call("wifi_initialize", handle, << WIFI_SUCCESS >>) >>
  IN  /\ hal_handle_' = handle
      /\ hal' = [hal EXCEPT ![handle] = "initialized"]
      /\ IF event_loop_thread_ # 0
         THEN \* move-assignment to a joinable std::thread: std::terminate
              /\ aborted' = TRUE
              /\ last' = Step("start", state_, FALSE, 0, init)
              /\ UNCHANGED << state_, event_loop_thread_, chip_, chips, worker >>
         ELSE /\ event_loop_thread_' = handle
              /\ worker' = [worker EXCEPT ![handle] = "loop"]
              /\ IF found.handle # kInterfaceNotFoundHandle
                 THEN /\ chips' = [chips EXCEPT ![handle] =
                                     [hal_service_ |-> TRUE,
                                      interface_handle_ |-> found.handle,
                                      callbacks_ |-> {}]]
                      /\ chip_' = handle
                 ELSE UNCHANGED << chips, chip_ >>
              /\ state_' = "STARTED"
              /\ last' = Step("start", state_, FALSE, 0,
                              init \o found.events \o Broadcast(callbacks_, "onStart", <<>>))
              /\ UNCHANGED aborted
      /\ UNCHANGED << callbacks_, awaiting_hal_cleanup_command_,
                      awaiting_hal_event_loop_termination_, client_chips, looper_,
                      stop_broadcasts, exit_state >>

\* the inputs of start() are what the vendor answers: the status of
\* wifi_initialize and the handle it writes, the interface list, and the
\* "wifi.interface" property
start ==
  /\ ~aborted
  /\ IF state_ = "STARTED" THEN start_started
     ELSE IF state_ = "STOPPING" THEN start_stopping
     ELSE \E status \in WifiErrors :
            IF status # WIFI_SUCCESS
            THEN \E handle \in {hal_handle_, 0} : start_initialize_failed(status, handle)
            ELSE /\ NextHandle \in Sessions
                 /\ \E ifname \in InterfaceNames, ret \in WifiErrors,
                       ifaces \in IfaceLists(NextHandle) :
                      start_initialize_ok(NextHandle, ifname, ret, ifaces)

\* FinishHalCleanup as it would be with `||` for `&&`: either flag clear resolves
FinishHalCleanup_either_flag(cleanup_command, event_loop_termination, callbacks, state) ==
  IF ~cleanup_command \/ ~event_loop_termination
  THEN [state |-> "STOPPED", resolved |-> 1, events |-> Broadcast(callbacks, "onStop", <<>>)]
  ELSE [state |-> state, resolved |-> 0, events |-> <<>>]

\* the barrier: what FinishHalCleanup does given the two flags, the subscribers
\* and the state it finds
FinishHalCleanup(cleanup_command, event_loop_termination, callbacks, state) ==
  IF ~cleanup_command /\ ~event_loop_termination
  THEN [state |-> "STOPPED", resolved |-> 1, events |-> Broadcast(callbacks, "onStop", <<>>)]
  ELSE [state |-> state, resolved |-> 0, events |-> <<>>]

\* WifiChipService::Invalidate
Invalidate(chip) == [chip EXCEPT !.hal_service_ = FALSE, !.callbacks_ = {}]

\* stop() in STOPPED as it would be if it returned silently
stop_stopped_silent ==
  /\ last' = Step("stop", state_, FALSE, 0, <<>>)
  /\ UNCHANGED << service_vars, chips, client_chips, looper_, worker, hal, aborted,
                  stop_broadcasts, exit_state >>

\* stop() in STOPPED
stop_stopped ==
  /\ last' = Step("stop", state_, FALSE, 0, Broadcast(callbacks_, "onStop", <<>>))
  /\ UNCHANGED << service_vars, chips, client_chips, looper_, worker, hal, aborted,
                  stop_broadcasts, exit_state >>

\* stop() in STOPPING as it would be if it took the STOPPED branch
stop_stopping_broadcasts ==
  /\ last' = Step("stop", state_, FALSE, 0, Broadcast(callbacks_, "onStop", <<>>))
  /\ UNCHANGED << service_vars, chips, client_chips, looper_, worker, hal, aborted,
                  stop_broadcasts, exit_state >>

\* stop() in STOPPING as it would be if it gave up waiting for the event loop
\* thread: it declares the session stopped
stop_stopping_gives_up ==
  /\ state_' = "STOPPED"
  /\ last' = Step("stop", state_, FALSE, 0, Broadcast(callbacks_, "onStop", <<>>))
  /\ UNCHANGED << callbacks_, hal_handle_, event_loop_thread_, awaiting_hal_cleanup_command_,
                  awaiting_hal_event_loop_termination_, chip_, chips, client_chips,
                  looper_, worker, hal, aborted, stop_broadcasts, exit_state >>

\* stop() in STOPPING
stop_stopping ==
  /\ last' = Step("stop", state_, FALSE, 0, <<>>)
  /\ UNCHANGED << service_vars, chips, client_chips, looper_, worker, hal, aborted,
                  stop_broadcasts, exit_state >>

\* stop() in STARTED as it would be if it did not set
\* awaiting_hal_event_loop_termination_: the flag keeps the value it had
stop_started_flag_not_set ==
  LET fin == FinishHalCleanup(FALSE, awaiting_hal_event_loop_termination_, callbacks_,
                              "STOPPING")
  IN  /\ chips' = IF chip_ # 0 THEN [chips EXCEPT ![chip_] = Invalidate(chips[chip_])]
                  ELSE chips
      /\ chip_' = 0
      /\ hal' = [hal EXCEPT ![hal_handle_] = "cleaned"]
      /\ awaiting_hal_cleanup_command_' = FALSE
      /\ state_' = fin.state
      /\ stop_broadcasts' = [stop_broadcasts EXCEPT ![hal_handle_] = @ + fin.resolved]
      /\ last' = Step("stop", state_, FALSE, 0,
                      (IF chip_ # 0 THEN << Call("Invalidate", chip_, <<>>) >> ELSE <<>>)
                      \o << Call("chip_.clear", chip_, <<>>),
                            Call("wifi_cleanup", hal_handle_, <<>>) >>
                      \o fin.events)
      /\ UNCHANGED << callbacks_, hal_handle_, event_loop_thread_,
                      awaiting_hal_event_loop_termination_, client_chips, looper_,
                      worker, aborted, exit_state >>

\* stop() in STARTED as it would be if it released chip_ without Invalidate
stop_started_no_invalidate ==
  LET fin == FinishHalCleanup(FALSE, TRUE, callbacks_, "STOPPING")
  IN  /\ awaiting_hal_event_loop_termination_' = TRUE
      /\ chip_' = 0
      /\ hal' = [hal EXCEPT ![hal_handle_] = "cleaned"]
      /\ awaiting_hal_cleanup_command_' = FALSE
      /\ state_' = fin.state
      /\ stop_broadcasts' = [stop_broadcasts EXCEPT ![hal_handle_] = @ + fin.resolved]
      /\ last' = Step("stop", state_, FALSE, 0,
                      << Call("chip_.clear", chip_, <<>>),
                         Call("wifi_cleanup", hal_handle_, <<>>) >>
                      \o fin.events)
      /\ UNCHANGED << callbacks_, hal_handle_, event_loop_thread_, chips, client_chips,
                      looper_, worker, aborted, exit_state >>

\* stop() in STARTED as it would be if it invalidated the chip but kept chip_
stop_started_keeps_chip ==
  LET fin == FinishHalCleanup(FALSE, TRUE, callbacks_, "STOPPING")
  IN  /\ awaiting_hal_event_loop_termination_' = TRUE
      /\ chips' = IF chip_ # 0 THEN [chips EXCEPT ![chip_] = Invalidate(chips[chip_])]
                  ELSE chips
      /\ hal' = [hal EXCEPT ![hal_handle_] = "cleaned"]
      /\ awaiting_hal_cleanup_command_' = FALSE
      /\ state_' = fin.state
      /\ stop_broadcasts' = [stop_broadcasts EXCEPT ![hal_handle_] = @ + fin.resolved]
      /\ last' = Step("stop", state_, FALSE, 0,
                      (IF chip_ # 0 THEN << Call("Invalidate", chip_, <<>>) >> ELSE <<>>)
                      \o << Call("wifi_cleanup", hal_handle_, <<>>) >>
                      \o fin.events)
      /\ UNCHANGED << callbacks_, hal_handle_, event_loop_thread_, chip_, client_chips,
                      looper_, worker, aborted, exit_state >>

\* stop() in STARTED
stop_started ==
  LET fin == FinishHalCleanup(FALSE, TRUE, callbacks_, "STOPPING")
  IN  /\ awaiting_hal_event_loop_termination_' = TRUE
      /\ chips' = IF chip_ # 0 THEN [chips EXCEPT ![chip_] = Invalidate(chips[chip_])]
                  ELSE chips
      /\ chip_' = 0
      /\ hal' = [hal EXCEPT ![hal_handle_] = "cleaned"]
      /\ awaiting_hal_cleanup_command_' = FALSE
      /\ state_' = fin.state
      /\ stop_broadcasts' = [stop_broadcasts EXCEPT ![hal_handle_] = @ + fin.resolved]
      /\ last' = Step("stop", state_, FALSE, 0,
                      (IF chip_ # 0 THEN << Call("Invalidate", chip_, <<>>) >> ELSE <<>>)
                      \o << Call("chip_.clear", chip_, <<>>),
                            Call("wifi_cleanup", hal_handle_, <<>>) >>
                      \o fin.events)
      /\ UNCHANGED << callbacks_, hal_handle_, event_loop_thread_, client_chips, looper_,
                      worker, aborted, exit_state >>

stop ==
  /\ ~aborted
  /\ IF state_ = "STOPPED" THEN stop_stopped
     ELSE IF state_ = "STOPPING" THEN stop_stopping
     ELSE stop_started

getChip ==
  /\ ~aborted
  /\ client_chips' = IF chip_ # 0 THEN client_chips \cup {chip_} ELSE client_chips
  /\ last' = Step("getChip", state_, FALSE, chip_, <<>>)
  /\ UNCHANGED << service_vars, chips, looper_, worker, hal, aborted,
                  stop_broadcasts, exit_state >>

\* the lambda as it would be without `awaiting_hal_event_loop_termination_ = false`
HandleMessage_flag_kept ==
  /\ ~aborted
  /\ looper_ # <<>>
  /\ LET fin == FinishHalCleanup(awaiting_hal_cleanup_command_,
                                 awaiting_hal_event_loop_termination_, callbacks_, state_)
     IN  /\ looper_' = Tail(looper_)
         /\ state_' = fin.state
         /\ stop_broadcasts' = [stop_broadcasts EXCEPT ![hal_handle_] = @ + fin.resolved]
         /\ last' = Step("handleMessage", state_, FALSE, 0, fin.events)
  /\ UNCHANGED << callbacks_, hal_handle_, event_loop_thread_, awaiting_hal_cleanup_command_,
                  awaiting_hal_event_loop_termination_, chip_, chips, client_chips, worker,
                  hal, aborted, exit_state >>

\* the Looper handles the message posted by DoHalEventLoop: the lambda runs
HandleMessage ==
  /\ ~aborted
  /\ looper_ # <<>>
  /\ LET fin == FinishHalCleanup(awaiting_hal_cleanup_command_, FALSE, callbacks_, state_)
     IN  /\ looper_' = Tail(looper_)
         /\ awaiting_hal_event_loop_termination_' = FALSE
         /\ state_' = fin.state
         /\ stop_broadcasts' = [stop_broadcasts EXCEPT ![hal_handle_] = @ + fin.resolved]
         /\ last' = Step("handleMessage", state_, FALSE, 0, fin.events)
  /\ UNCHANGED << callbacks_, hal_handle_, event_loop_thread_, awaiting_hal_cleanup_command_,
                  chip_, chips, client_chips, worker, hal, aborted, exit_state >>

(* ---------------------- the HAL event loop thread --------------------- *)
\* the vendor's wifi_event_loop returns, after wifi_cleanup or on its own
wifi_event_loop_returns(s) ==
  /\ ~aborted
  /\ worker[s] = "loop"
  /\ worker' = [worker EXCEPT ![s] = "returned"]
  /\ exit_state' = [exit_state EXCEPT ![s] = state_]
  /\ last' = Step("wifi_event_loop", state_, FALSE, 0, <<>>)
  /\ UNCHANGED << service_vars, chips, client_chips, looper_, hal, aborted, stop_broadcasts >>

\* DoHalEventLoop as it would be without the LOG(FATAL) test
DoHalEventLoop_check_never_aborts(s) ==
  /\ ~aborted
  /\ worker[s] = "returned"
  /\ worker' = [worker EXCEPT ![s] = "checked"]
  /\ last' = Step("DoHalEventLoop.check", state_, FALSE, 0, <<>>)
  /\ UNCHANGED << service_vars, chips, client_chips, looper_, hal, aborted, stop_broadcasts,
                  exit_state >>

\* `if (state_ != State::STOPPING) LOG(FATAL)`: the thread reads state_
DoHalEventLoop_check(s) ==
  /\ ~aborted
  /\ worker[s] = "returned"
  /\ IF state_ # "STOPPING"
     THEN /\ aborted' = TRUE
          /\ worker' = [worker EXCEPT ![s] = "aborted"]
     ELSE /\ worker' = [worker EXCEPT ![s] = "checked"]
          /\ UNCHANGED aborted
  /\ last' = Step("DoHalEventLoop.check", state_, FALSE, 0, <<>>)
  /\ UNCHANGED << service_vars, chips, client_chips, looper_, hal, stop_broadcasts,
                  exit_state >>

\* DoHalEventLoop as it would be without `event_loop_thread_.detach()`
DoHalEventLoop_detach_skipped(s) ==
  /\ ~aborted
  /\ worker[s] = "checked"
  /\ worker' = [worker EXCEPT ![s] = "detached"]
  /\ last' = Step("DoHalEventLoop.detach", state_, FALSE, 0, <<>>)
  /\ UNCHANGED << service_vars, chips, client_chips, looper_, hal, aborted, stop_broadcasts,
                  exit_state >>

\* `event_loop_thread_.detach()`: throws (and terminates) if not joinable
DoHalEventLoop_detach(s) ==
  /\ ~aborted
  /\ worker[s] = "checked"
  /\ IF event_loop_thread_ = 0
     THEN /\ aborted' = TRUE
          /\ worker' = [worker EXCEPT ![s] = "aborted"]
          /\ UNCHANGED event_loop_thread_
     ELSE /\ event_loop_thread_' = 0
          /\ worker' = [worker EXCEPT ![s] = "detached"]
          /\ UNCHANGED aborted
  /\ last' = Step("DoHalEventLoop.detach", state_, FALSE, 0, <<>>)
  /\ UNCHANGED << state_, callbacks_, hal_handle_, awaiting_hal_cleanup_command_,
                  awaiting_hal_event_loop_termination_, chip_, chips, client_chips,
                  looper_, hal, stop_broadcasts, exit_state >>

\* PostTask as it would be if the message were sent twice
PostTask_twice(s) ==
  /\ ~aborted
  /\ worker[s] = "detached"
  /\ looper_' = Append(Append(looper_, s), s)
  /\ worker' = [worker EXCEPT ![s] = "exited"]
  /\ last' = Step("PostTask", state_, FALSE, 0, <<>>)
  /\ UNCHANGED << service_vars, chips, client_chips, hal, aborted, stop_broadcasts,
                  exit_state >>

\* PostTask([this]{ ... }): looper_->sendMessage; the thread then ends
PostTask(s) ==
  /\ ~aborted
  /\ worker[s] = "detached"
  /\ looper_' = Append(looper_, s)
  /\ worker' = [worker EXCEPT ![s] = "exited"]
  /\ last' = Step("PostTask", state_, FALSE, 0, <<>>)
  /\ UNCHANGED << service_vars, chips, client_chips, hal, aborted, stop_broadcasts,
                  exit_state >>

(* ------------------------ WifiChipService ----------------------------- *)
\* WifiChipService::registerEventCallback as it would be without the hal_service_ test
WifiChipService_registerEventCallback_unguarded(c, callback) ==
  /\ ~aborted
  /\ c \in client_chips
  /\ chips' = [chips EXCEPT ![c].callbacks_ = @ \cup {callback}]
  /\ last' = Step("chip.registerEventCallback", state_, FALSE, c, <<>>)
  /\ UNCHANGED << service_vars, client_chips, looper_, worker, hal, aborted,
                  stop_broadcasts, exit_state >>

WifiChipService_registerEventCallback(c, callback) ==
  /\ ~aborted
  /\ c \in client_chips
  /\ chips' = IF ~chips[c].hal_service_ THEN chips
              ELSE [chips EXCEPT ![c].callbacks_ = @ \cup {callback}]
  /\ last' = Step("chip.registerEventCallback", state_, FALSE, c, <<>>)
  /\ UNCHANGED << service_vars, client_chips, looper_, worker, hal, aborted,
                  stop_broadcasts, exit_state >>

\* the description requestChipDebugInfo reports for a version query
Description(ret, buffer) == IF ret = WIFI_SUCCESS THEN buffer ELSE "<unknown>"

requestChipDebugInfo(c, driver_ret, firmware_ret) ==
  /\ ~aborted
  /\ c \in client_chips
  /\ last' = Step("requestChipDebugInfo", state_, FALSE, c,
                  IF ~chips[c].hal_service_ THEN <<>>
                  ELSE << Call("wifi_get_driver_version", chips[c].interface_handle_,
                               << driver_ret >>),
                          Call("wifi_get_firmware_version", chips[c].interface_handle_,
                               << firmware_ret >>) >>
                       \o Broadcast(chips[c].callbacks_, "onChipDebugInfoAvailable",
                                    << Description(driver_ret, "driver"),
                                       Description(firmware_ret, "firmware") >>))
  /\ UNCHANGED << service_vars, chips, client_chips, looper_, worker, hal, aborted,
                  stop_broadcasts, exit_state >>

(* ------------------------- specification ------------------------------ *)
Next ==
  \/ \E callback \in Subscribers : registerEventCallback(callback)
  \/ isStarted
  \/ start
  \/ stop
  \/ getChip
  \/ HandleMessage
  \/ \E s \in Sessions : wifi_event_loop_returns(s)
  \/ \E s \in Sessions : DoHalEventLoop_check(s)
  \/ \E s \in Sessions : DoHalEventLoop_detach(s)
  \/ \E s \in Sessions : PostTask(s)
  \/ \E c \in Sessions, callback \in ChipSubscribers :
       WifiChipService_registerEventCallback(c, callback)
  \/ \E c \in Sessions, driver_ret \in WifiErrors, firmware_ret \in WifiErrors :
       requestChipDebugInfo(c, driver_ret, firmware_ret)

Spec == Init /\ [][Next]_vars

\* wifi_event_loop returns because wifi_cleanup was called on its handle
wifi_event_loop_returns_after_cleanup(s) ==
  /\ hal[s] = "cleaned"
  /\ wifi_event_loop_returns(s)

\* the vendor's event loop returns once wifi_cleanup was called, the event loop
\* thread is scheduled until it ends, and the Looper handles every message
FairSpec ==
  /\ Spec
  /\ \A s \in Sessions :
       /\ WF_vars(wifi_event_loop_returns_after_cleanup(s))
       /\ WF_vars(DoHalEventLoop_check(s))
       /\ WF_vars(DoHalEventLoop_detach(s))
       /\ WF_vars(PostTask(s))
  /\ WF_vars(HandleMessage)

\* the lifecycle calls (registerEventCallback, start, stop) with the event loop
\* thread and the Looper: the steps that read or write the stop barrier
LifecycleNext ==
  \/ \E callback \in Subscribers : registerEventCallback(callback)
  \/ start
  \/ stop
  \/ HandleMessage
  \/ \E s \in Sessions : wifi_event_loop_returns(s)
  \/ \E s \in Sessions : DoHalEventLoop_check(s)
  \/ \E s \in Sessions : DoHalEventLoop_detach(s)
  \/ \E s \in Sessions : PostTask(s)

\* LifecycleNext under the fairness of FairSpec
LifecycleFairSpec ==
  /\ Init
  /\ [][LifecycleNext]_vars
  /\ \A s \in Sessions :
       /\ WF_vars(wifi_event_loop_returns_after_cleanup(s))
       /\ WF_vars(DoHalEventLoop_check(s))
       /\ WF_vars(DoHalEventLoop_detach(s))
       /\ WF_vars(PostTask(s))
  /\ WF_vars(HandleMessage)

(* ============================ properties ============================== *)
\* `events` is exactly one call ev(arg) to each member of `set`, and nothing else
DeliveredToAll(events, set, ev, arg) ==
  /\ Len(events) = Cardinality(set)
  /\ \A c \in set : \E i \in 1..Len(events) : events[i] = Call(ev, c, arg)

\* everything but the record of the last step and the subscriber set
unobserved_vars == << state_, hal_handle_, event_loop_thread_, awaiting_hal_cleanup_command_,
                      awaiting_hal_event_loop_termination_, chip_, chips, client_chips,
                      looper_, worker, hal, aborted, stop_broadcasts, exit_state >>

\* C1: for every stop() made in STARTED, FinishHalCleanup broadcasts onStop
\* exactly once for it: never before both flags are clear (none while STOPPING,
\* none for a session whose wifi_cleanup was not called), once from the moment
\* both are clear, never twice; and that broadcast is one onStop per subscriber.
C1_OnStopExactlyOnce ==
  /\ \A s \in Sessions :
       /\ stop_broadcasts[s] <= 1
       /\ hal[s] # "cleaned" => stop_broadcasts[s] = 0
       /\ ( /\ hal[s] = "cleaned"
            /\ s = hal_handle_ => ( /\ ~awaiting_hal_cleanup_command_
                                    /\ ~awaiting_hal_event_loop_termination_ ) )
          => stop_broadcasts[s] = 1
       /\ (s = hal_handle_ /\ state_ = "STOPPING") => stop_broadcasts[s] = 0
  /\ (last.op \in {"stop", "handleMessage"} /\ last.pre # "STOPPED" /\ state_ = "STOPPED")
       => Len(CallsOf(last.events, "onStop")) = Cardinality(callbacks_)
          /\ \A c \in callbacks_ :
               \E i \in 1..Len(last.events) : last.events[i] = Call("onStop", c, <<>>)

\* C1 witness: a stop() made in STARTED has resolved and its onStop went to two subscribers
C1_Witness ==
  /\ last.op = "handleMessage"
  /\ last.pre = "STOPPING"
  /\ state_ = "STOPPED"
  /\ stop_broadcasts[hal_handle_] = 1
  /\ Cardinality(callbacks_) = 2

\* C2: the state leaves STOPPING, and the onStop of a stop() made in STARTED is
\* broadcast, only in the step that handles the event loop thread's message,
\* posted after that thread left wifi_event_loop, and only after wifi_cleanup was
\* called and returned; stop() itself leaves the state STOPPING.
C2_OnStopAfterBoth ==
  [][ ( \/ (state_ = "STOPPING" /\ state_' # "STOPPING")
        \/ \E s \in Sessions : stop_broadcasts'[s] # stop_broadcasts[s] )
      => /\ last'.op = "handleMessage"
         /\ looper_ # <<>>
         /\ Head(looper_) = hal_handle_
         /\ looper_' = Tail(looper_)
         /\ worker[hal_handle_] = "exited"
         /\ hal[hal_handle_] = "cleaned"
         /\ ~awaiting_hal_cleanup_command_
         /\ state_ = "STOPPING"
         /\ state_' = "STOPPED" ]_vars

\* C2 witness: stop() has returned with the cleanup command complete, the event
\* loop thread is still inside wifi_event_loop, and no onStop was broadcast
C2_Witness ==
  /\ last.op = "stop"
  /\ last.pre = "STARTED"
  /\ state_ = "STOPPING"
  /\ ~awaiting_hal_cleanup_command_
  /\ awaiting_hal_event_loop_termination_
  /\ worker[hal_handle_] = "loop"
  /\ CallsOf(last.events, "onStop") = <<>>
  /\ callbacks_ # {}

\* a session is open from a successful start() until FinishHalCleanup resolves its stop()
SessionOpen == \E s \in Sessions : hal[s] # "unused" /\ stop_broadcasts[s] = 0

\* C3: isStarted() returns true iff state_ is not STOPPED, which is: iff a
\* successful start() was made whose stop barrier has not resolved yet; and it
\* changes nothing.
C3_IsStarted ==
  [][ last'.op = "isStarted"
      => /\ last'.ret = (state_ # "STOPPED")
         /\ last'.ret = SessionOpen
         /\ UNCHANGED << callbacks_, unobserved_vars >> ]_vars

\* C3 witness: isStarted() returned true while STOPPING
C3_Witness ==
  /\ last.op = "isStarted"
  /\ last.ret
  /\ state_ = "STOPPING"

\* C4: whenever wifi_event_loop returns while state_ is not STOPPING, the process
\* aborts: the thread gets no further than its check and posts no message.
C4_AbortUnlessStopping ==
  \A s \in Sessions :
    exit_state[s] \in {"STOPPED", "STARTED"}
      => /\ worker[s] \in {"returned", "aborted"}
         /\ \A i \in 1..Len(looper_) : looper_[i] # s

\* C5: start() in STOPPING delivers onStartFailure(NOT_AVAILABLE) to every
\* subscriber, calls no vendor function, spawns no thread and changes nothing.
C5_StartWhileStopping ==
  [][ (last'.op = "start" /\ state_ = "STOPPING")
      => /\ DeliveredToAll(last'.events, callbacks_, "onStartFailure",
                           << "NOT_AVAILABLE", "HAL is stopping" >>)
         /\ NoVendorCall(last'.events)
         /\ UNCHANGED << callbacks_, unobserved_vars >> ]_vars

\* C5 witness: start() was called in STOPPING with two subscribers registered
C5_Witness ==
  /\ last.op = "start"
  /\ last.pre = "STOPPING"
  /\ state_ = "STOPPING"
  /\ Cardinality(callbacks_) = 2
  /\ Len(last.events) = 2

\* C6: start() in STOPPED always calls wifi_initialize first (so also after a
\* failed start()); when it fails, onStartFailure goes to every subscriber, the
\* state stays STOPPED, no thread is spawned and no chip is created.
C6_InitializeFails ==
  [][ (last'.op = "start" /\ state_ = "STOPPED")
      => /\ last'.events # <<>>
         /\ Head(last'.events).ev = "wifi_initialize"
         /\ Head(last'.events).arg # << WIFI_SUCCESS >>
              => /\ DeliveredToAll(Tail(last'.events), callbacks_, "onStartFailure",
                                   << "LEGACY", Head(last'.events).arg[1],
                                      "Failed to initialize HAL" >>)
                 /\ state_' = "STOPPED"
                 /\ UNCHANGED << callbacks_, event_loop_thread_, worker, chip_, chips,
                                 looper_, hal, aborted >> ]_vars

\* C6 witness: a start() in STOPPED whose wifi_initialize failed, two subscribers told
C6_Witness ==
  /\ last.op = "start"
  /\ last.pre = "STOPPED"
  /\ state_ = "STOPPED"
  /\ Cardinality(callbacks_) = 2
  /\ Len(last.events) = 3
  /\ Head(last.events) = Call("wifi_initialize", 0, << "WIFI_ERROR_UNKNOWN" >>)

\* C7: start() in STARTED delivers onStart to every subscriber, calls no vendor
\* function (no second wifi_initialize), spawns no thread, and leaves the state
\* STARTED and the chip as they were.
C7_StartWhileStarted ==
  [][ (last'.op = "start" /\ state_ = "STARTED")
      => /\ DeliveredToAll(last'.events, callbacks_, "onStart", <<>>)
         /\ NoVendorCall(last'.events)
         /\ state_' = "STARTED"
         /\ UNCHANGED << callbacks_, unobserved_vars >> ]_vars

\* C7 witness: start() was called in STARTED with two subscribers registered
C7_Witness ==
  /\ last.op = "start"
  /\ last.pre = "STARTED"
  /\ state_ = "STARTED"
  /\ Cardinality(callbacks_) = 2
  /\ Len(last.events) = 2

\* C8: stop() in STOPPED delivers onStop to every subscriber at once, calls no
\* vendor function, and leaves the state STOPPED and the barrier flags as they were.
C8_StopWhileStopped ==
  [][ (last'.op = "stop" /\ state_ = "STOPPED")
      => /\ DeliveredToAll(last'.events, callbacks_, "onStop", <<>>)
         /\ NoVendorCall(last'.events)
         /\ state_' = "STOPPED"
         /\ UNCHANGED << callbacks_, unobserved_vars >> ]_vars

\* C8 witness: stop() was called in STOPPED after an earlier stop() had resolved
C8_Witness ==
  /\ last.op = "stop"
  /\ last.pre = "STOPPED"
  /\ state_ = "STOPPED"
  /\ \E s \in Sessions : stop_broadcasts[s] = 1
  /\ Cardinality(callbacks_) = 2
  /\ Len(last.events) = 2

\* C9: stop() in STOPPING does nothing: no callback, no vendor call (no second
\* wifi_cleanup), state and flags unchanged.
C9_StopWhileStopping ==
  [][ (last'.op = "stop" /\ state_ = "STOPPING")
      => /\ last'.events = <<>>
         /\ UNCHANGED << callbacks_, unobserved_vars >> ]_vars

\* C9 witness: stop() was called in STOPPING, subscribers registered, barrier pending
C9_Witness ==
  /\ last.op = "stop"
  /\ last.pre = "STOPPING"
  /\ state_ = "STOPPING"
  /\ awaiting_hal_event_loop_termination_
  /\ callbacks_ # {}

\* C10: stop() in STARTED with a chip invalidates the chip, then releases chip_,
\* then calls wifi_cleanup; getChip passes chip_ to its callback, and chip_ is
\* null whenever the state is not STARTED: it becomes non-null again only in a
\* start() that succeeds and finds the interface.
C10_ChipReleasedBeforeCleanup ==
  [][ /\ (last'.op = "stop" /\ state_ = "STARTED" /\ chip_ # 0)
        => /\ Len(last'.events) >= 3
           /\ last'.events[1] = Call("Invalidate", chip_, <<>>)
           /\ last'.events[2] = Call("chip_.clear", chip_, <<>>)
           /\ last'.events[3] = Call("wifi_cleanup", hal_handle_, <<>>)
           /\ ~chips'[chip_].hal_service_
           /\ chip_' = 0
      /\ last'.op = "getChip" => (last'.chip = chip_ /\ chip_' = chip_)
      /\ state_' # "STARTED" => chip_' = 0
      /\ (chip_ = 0 /\ chip_' # 0)
        => /\ last'.op = "start"
           /\ state_ = "STOPPED"
           /\ state_' = "STARTED"
           /\ chips'[chip_'].hal_service_
           /\ chips'[chip_'].interface_handle_ # kInterfaceNotFoundHandle ]_vars

\* C10 witness: a chip existed, stop() released it, and getChip then reported no chip
C10_Witness ==
  /\ last.op = "getChip"
  /\ last.chip = 0
  /\ state_ = "STOPPING"
  /\ chips[hal_handle_].interface_handle_ # kInterfaceNotFoundHandle
  /\ ~chips[hal_handle_].hal_service_

\* a chip that was constructed and then invalidated
Invalidated(c) == chips[c].interface_handle_ # kInterfaceNotFoundHandle /\ ~chips[c].hal_service_

\* C11: an invalidated chip stays invalidated, with an empty subscriber set,
\* whatever is called afterwards (a new start() included); requestChipDebugInfo
\* on it makes no call at all and registerEventCallback on it adds nothing.
C11_InvalidatedForever ==
  [][ \A c \in Sessions :
        Invalidated(c)
          => /\ chips[c].callbacks_ = {}
             /\ chips'[c] = chips[c]
             /\ (last'.op = "requestChipDebugInfo" /\ last'.chip = c)
                  => last'.events = <<>>
             /\ (last'.op = "chip.registerEventCallback" /\ last'.chip = c)
                  => chips' = chips ]_vars

\* C11 witness: registerEventCallback was called on the invalidated chip of the
\* first session after a second start(), and its subscriber set is still empty
C11_Witness ==
  /\ last.op = "chip.registerEventCallback"
  /\ last.chip = 1
  /\ Invalidated(1)
  /\ chips[1].callbacks_ = {}
  /\ state_ = "STARTED"
  /\ hal_handle_ = 2

\* the lifecycle callbacks of IWifiEventCallback
LifecycleEvents == {"onStart", "onStartFailure", "onStop"}

\* the lifecycle callbacks among `events` that went to subscriber c
RECURSIVE DeliveriesTo(_, _)
DeliveriesTo(events, c) ==
  IF events = <<>> THEN 0
  ELSE (IF Head(events).ev \in LifecycleEvents /\ Head(events).to = c THEN 1 ELSE 0)
       + DeliveriesTo(Tail(events), c)

\* the step before was a registerEventCallback of a subscriber already registered
RegisteredAgain ==
  /\ last.op = "registerEventCallback"
  /\ last.events[1].arg = << "present" >>

\* the step is an operation of the service that broadcasts a lifecycle event:
\* any start(), a stop() in STOPPED, or the message that resolves the barrier
BroadcastStep ==
  \/ last'.op = "start" /\ ~aborted'
  \/ last'.op = "stop" /\ state_ = "STOPPED"
  \/ last'.op = "handleMessage" /\ state_ = "STOPPING" /\ state_' = "STOPPED"

\* C12 as stated: a subscriber registered twice gets two deliveries of the
\* lifecycle event broadcast next.
C12_TwoDeliveries ==
  [][ (RegisteredAgain /\ BroadcastStep)
      => DeliveriesTo(last'.events, last.events[1].to) = 2 ]_vars

\* C12 as amended: callbacks_ is a set keyed by the callback's identity, so a
\* second registration of a subscriber leaves it unchanged, and every lifecycle
\* broadcast delivers exactly once to each registered subscriber, also to one
\* that was registered twice.
C12_OneDelivery ==
  [][ /\ (last'.op = "registerEventCallback" /\ last'.events[1].arg = << "present" >>)
        => callbacks_' = callbacks_
      /\ BroadcastStep
        => /\ \A c \in callbacks_ : DeliveriesTo(last'.events, c) = 1
           /\ \A c \in Subscribers \ callbacks_ : DeliveriesTo(last'.events, c) = 0
      /\ (RegisteredAgain /\ BroadcastStep)
        => DeliveriesTo(last'.events, last.events[1].to) = 1 ]_vars

\* C12 witness: a subscriber has just been registered a second time
C12_Witness ==
  /\ RegisteredAgain
  /\ last.events[1].to \in callbacks_
  /\ Cardinality(callbacks_) = 2

\* C13: while the state is STOPPING and the event loop thread stays inside
\* wifi_event_loop, no step leaves STOPPING and none delivers onStop; and no
\* start(), stop(), registerEventCallback(), isStarted() or getChip() ever
\* leaves STOPPING or delivers onStop.
C13_StuckInStopping ==
  [][ /\ ( /\ state_ = "STOPPING"
           /\ worker[hal_handle_] = "loop"
           /\ worker'[hal_handle_] = "loop" )
        => /\ state_' = "STOPPING"
           /\ CallsOf(last'.events, "onStop") = <<>>
           /\ looper_' = <<>>
      /\ ( /\ state_ = "STOPPING"
           /\ last'.op \in {"start", "stop", "registerEventCallback", "isStarted", "getChip"} )
        => /\ state_' = "STOPPING"
           /\ CallsOf(last'.events, "onStop") = <<>> ]_vars

\* C13 witness: wifi_cleanup was called, the event loop thread is still inside
\* wifi_event_loop, and a later call found the state STOPPING and left it so
C13_Witness ==
  /\ state_ = "STOPPING"
  /\ hal[hal_handle_] = "cleaned"
  /\ worker[hal_handle_] = "loop"
  /\ last.op = "registerEventCallback"
  /\ last.pre = "STOPPING"
  /\ callbacks_ = Subscribers

\* the steps taken by the event loop thread
WorkerOps == {"wifi_event_loop", "DoHalEventLoop.check", "DoHalEventLoop.detach", "PostTask"}

\* C14: the event loop thread never touches the service's state (state_, the
\* two flags, event_loop_thread_, hal_handle_) itself: its steps leave these
\* fields as they are, and all it does is send a message to the Looper.
C14_WorkerLeavesFields ==
  [][ last'.op \in WorkerOps
      => UNCHANGED << state_, awaiting_hal_cleanup_command_,
                      awaiting_hal_event_loop_termination_, event_loop_thread_,
                      hal_handle_ >> ]_vars

\* an event loop thread that was spawned and has not yet posted its message
\* (after which DoHalEventLoop returns and the thread ends)
Alive(s) == worker[s] \in {"loop", "returned", "checked", "detached"}

\* a vendor handle that wifi_initialize returned and whose session has not
\* completed its stop barrier
HandleExists == \E h \in Sessions : hal[h] # "unused" /\ stop_broadcasts[h] = 0

ThreadExists == \E s \in Sessions : Alive(s)

C16_FlagsClearOutsideStopping ==
  state_ \in {"STOPPED", "STARTED"}
    => /\ ~awaiting_hal_cleanup_command_
       /\ ~awaiting_hal_event_loop_termination_

\* C17: the FinishHalCleanup call inside stop() never resolves the barrier:
\* every stop() made in STARTED returns in STOPPING with the event loop flag
\* still set, the cleanup flag clear and no onStop delivered, whatever the
\* event loop thread has done so far; a step from STOPPING to STOPPED is always
\* the handling of that thread's message.
C17_StopNeverResolves ==
  [][ /\ (last'.op = "stop" /\ state_ = "STARTED")
        => /\ state_' = "STOPPING"
           /\ awaiting_hal_event_loop_termination_'
           /\ ~awaiting_hal_cleanup_command_'
           /\ CallsOf(last'.events, "onStop") = <<>>
           /\ stop_broadcasts' = stop_broadcasts
           /\ looper_' = looper_
      /\ (state_ = "STOPPING" /\ state_' = "STOPPED")
        => /\ last'.op = "handleMessage"
           /\ CallsOf(last'.events, "onStop") = Broadcast(callbacks_, "onStop", <<>>) ]_vars

\* C17 witness: stop() was called in STARTED after wifi_event_loop had already
\* returned, and still left the state STOPPING
C17_Witness ==
  /\ last.op = "stop"
  /\ last.pre = "STARTED"
  /\ state_ = "STOPPING"
  /\ worker[hal_handle_] = "returned"
  /\ exit_state[hal_handle_] = "STARTED"

\* C18: if the vendor's event loop returns once wifi_cleanup was called and the
\* Looper handles every message, every stop() made in STARTED is eventually
\* followed by the state STOPPED and one onStop to each subscriber registered
\* at that time, whatever is called in between.
C18_StopCompletes ==
  \A s \in Sessions :
    (state_ = "STOPPING" /\ hal_handle_ = s)
      ~> ( /\ state_ = "STOPPED"
           /\ hal_handle_ = s
           /\ stop_broadcasts[s] = 1
           /\ last.op = "handleMessage"
           /\ DeliveredToAll(last.events, callbacks_, "onStop", <<>>) )

\* C18 witness: a stop() has completed for a session whose event loop returned
\* after wifi_cleanup, with a subscriber that was told
C18_Witness ==
  /\ state_ = "STOPPED"
  /\ last.op = "handleMessage"
  /\ exit_state[hal_handle_] = "STOPPING"
  /\ stop_broadcasts[hal_handle_] = 1
  /\ last.events = << Call("onStop", 1, <<>>) >>

\* the vendor's version queries
VersionQueries == {"wifi_get_driver_version", "wifi_get_firmware_version"}

\* C19: a chip that is not invalidated exists only while the state is STARTED,
\* and it is the one chip_ refers to, created in the current session; so the
\* vendor's version queries are made only in STARTED, before wifi_cleanup was
\* called on the current handle, and with an interface handle of that handle.
C19_LiveChipOnlyWhileStarted ==
  [][ /\ \A c \in Sessions :
           chips'[c].hal_service_
             => /\ state_' = "STARTED"
                /\ c = chip_'
                /\ c = hal_handle_'
      /\ \A i \in 1..Len(last'.events) :
           last'.events[i].ev \in VersionQueries
             => /\ last'.op = "requestChipDebugInfo"
                /\ state_ = "STARTED"
                /\ hal[hal_handle_] = "initialized"
                /\ last'.chip = chip_
                /\ last'.events[i].to \in {IfaceHandle(hal_handle_, 1),
                                           IfaceHandle(hal_handle_, 2)} ]_vars

\* C19 witness: in a second session the version queries were made through the
\* second chip while a client still holds the invalidated chip of the first
C19_Witness ==
  /\ last.op = "requestChipDebugInfo"
  /\ last.chip = 2
  /\ hal_handle_ = 2
  /\ Len(last.events) >= 2
  /\ last.events[1].ev = "wifi_get_driver_version"
  /\ 1 \in client_chips
  /\ Invalidated(1)

\* the event loop threads that are running, given the positions w
Running(w) == {s \in Sessions : w[s] \in {"loop", "returned", "checked", "detached"}}

====
